---- MODULE Spec2Model ----
(***************************************************************************)
(* A model of the Node bridge's conversion layer of libsignal-client:      *)
(*   rust/bridge/shared/src/node/convert.rs  (argument and result          *)
(*       conversion, Optional adapter, buffer aliasing guard, opaque       *)
(*       handles, persistent storage)                                      *)
(*   rust/bridge/shared/src/node/error.rs    (error-to-exception mapping)  *)
(*                                                                         *)
(* Numbers.  TLC integers are 32 bits wide, the program's are 64 bits and  *)
(* IEEE doubles.  A magnitude below 2^64 (and the one double above it that *)
(* a u64 can round to, 2^64) is kept as four limbs of 16 bits, most        *)
(* significant first; the first limb may reach 2^16 to hold 2^64.          *)
(***************************************************************************)
EXTENDS Integers, Sequences, FiniteSets, TLC

VARIABLES
    scalarOp,       \* the last call of the Scalar Codec: operation, type, input, result
    optOp,          \* the last call of the Optional adapter
    elemCalls,      \* the calls that call made to the element contract's conversion
    simpleStored,   \* the storage of one simple argument: how it was made and what it holds
    simpleLoads,    \* the outcome of each load from that storage, in order
    debugLog,       \* log::log_enabled!(log::Level::Debug)
    jsBuf,          \* the bytes of the host buffer (owned and writable by the host)
    guard,          \* the AssumedImmutableBuffer of the call in progress, if any
    bufAtBorrow,    \* the bytes of the host buffer when it was borrowed
    bufSeen,        \* what the native code read through the loaded slice, if it did
    bufPhase,       \* "idle", "borrowed", "released"
    errorLog,       \* the log::error! lines written since the borrow
    cellFlag,       \* the borrow flag of each native object's RefCell
    callStack,      \* the synchronous calls in progress, innermost last; each
                    \* frame holds the storages its arguments have borrowed
    lastBorrow,     \* the last borrow of an opaque handle argument and how it ended
    moduleErrors,   \* the value of the module object's `Errors` property
    lastThrow,      \* the last native error mapped and the host exception thrown for it
    warnLog,        \* the log::warn! lines written by that mapping
    errLookups,     \* the properties that mapping read from the module and its registry
    asyncPhase,     \* where the asynchronous call stands
    asyncThread,    \* the execution context the call is running on: "host" or "worker"
    asyncStore,     \* the persisted storage of each argument
    asyncRoots,     \* the roots (by argument index) that keep host objects alive
    asyncFinal,     \* per argument: the finalizations done, each with where and when
    asyncReleases,  \* per argument: how many times its root was given back
    asyncWork,      \* the native deferred work: state and, on failure, the argument at fault
    asyncPromise,   \* the deferred result handed to the host
    lastPersist     \* the last refused persist of a handle: live roots before and after

scalarVars == <<scalarOp>>
optVars == <<optOp, elemCalls>>
moveVars == <<simpleStored, simpleLoads>>
bufVars == <<debugLog, jsBuf, guard, bufAtBorrow, bufSeen, bufPhase, errorLog>>
handleVars == <<cellFlag, callStack, lastBorrow>>
errVars == <<moduleErrors, lastThrow, warnLog, errLookups>>
asyncVars == <<asyncPhase, asyncThread, asyncStore, asyncRoots, asyncFinal, asyncReleases,
               asyncWork, asyncPromise, lastPersist>>
vars == <<scalarVars, optVars, moveVars, bufVars, handleVars, errVars, asyncVars>>

otherThanScalar == <<moveVars, optVars, bufVars, handleVars, errVars, asyncVars>>
otherThanOpt == <<moveVars, scalarVars, bufVars, handleVars, errVars, asyncVars>>
otherThanBuf == <<moveVars, scalarVars, optVars, handleVars, errVars, asyncVars>>
otherThanHandle == <<moveVars, scalarVars, optVars, bufVars, errVars, asyncVars>>
otherThanErr == <<moveVars, scalarVars, optVars, bufVars, handleVars, asyncVars>>
otherThanMove == <<scalarVars, optVars, bufVars, handleVars, errVars, asyncVars>>
otherThanAsync == <<moveVars, scalarVars, optVars, handleVars, errVars>>

(***************************************************************************)
(* Limbs                                                                   *)
(***************************************************************************)
LimbBase == 2^16

Limbs(a, b, c, d) == <<a, b, c, d>>

LimbsZero == Limbs(0, 0, 0, 0)

LimbsLt(x, y) ==
    \/ x[1] < y[1]
    \/ x[1] = y[1] /\ x[2] < y[2]
    \/ x[1] = y[1] /\ x[2] = y[2] /\ x[3] < y[3]
    \/ x[1] = y[1] /\ x[2] = y[2] /\ x[3] = y[3] /\ x[4] < y[4]

LimbsLe(x, y) == x = y \/ LimbsLt(x, y)

\* x + n for a small n (n < 2^16), carrying through the limbs.
LimbsAddSmall(x, n) ==
    LET s4 == x[4] + n
        s3 == x[3] + (s4 \div LimbBase)
        s2 == x[2] + (s3 \div LimbBase)
        s1 == x[1] + (s2 \div LimbBase)
    IN  Limbs(s1, s2 % LimbBase, s3 % LimbBase, s4 % LimbBase)

\* Quotient and remainder of x by 10 (schoolbook long division).
LimbsDivMod10(x) ==
    LET t1 == x[1]
        t2 == (t1 % 10) * LimbBase + x[2]
        t3 == (t2 % 10) * LimbBase + x[3]
        t4 == (t3 % 10) * LimbBase + x[4]
    IN  [q |-> Limbs(t1 \div 10, t2 \div 10, t3 \div 10, t4 \div 10), r |-> t4 % 10]

\* Number of significant bits of a limb value n, 0 <= n < 2^16.
RECURSIVE BitLen(_)
BitLen(n) == IF n = 0 THEN 0 ELSE 1 + BitLen(n \div 2)

(***************************************************************************)
(* Native integers and host numbers                                        *)
(***************************************************************************)
\* A native integer: sign and magnitude.
NInt(neg, mag) == [neg |-> neg, mag |-> mag]

\* A host number (IEEE double): NaN, an infinity, or a finite value
\* (-1)^neg * (int + half/2).  Doubles of magnitude 2^52 and above have no
\* fractional part, and the ones above 2^53 are multiples of their ulp.
F64Nan == [cls |-> "nan", neg |-> FALSE, int |-> LimbsZero, half |-> 0]
F64Inf(neg) == [cls |-> "inf", neg |-> neg, int |-> LimbsZero, half |-> 0]
F64Fin(neg, int, half) == [cls |-> "fin", neg |-> neg, int |-> int, half |-> half]

\* f64 == and <= (IEEE: NaN compares false with everything, -0.0 == 0.0).
F64IsZero(x) == x.cls = "fin" /\ x.int = LimbsZero /\ x.half = 0

F64MagLt(x, y) == LimbsLt(x.int, y.int) \/ (x.int = y.int /\ x.half < y.half)

F64Eq(x, y) ==
    /\ x.cls # "nan" /\ y.cls # "nan"
    /\ \/ F64IsZero(x) /\ F64IsZero(y)
       \/ x = y

F64Lt(x, y) ==
    /\ x.cls # "nan" /\ y.cls # "nan"
    /\ ~F64Eq(x, y)
    /\ CASE x.cls = "inf" -> x.neg /\ ~(y.cls = "inf" /\ y.neg)
         [] y.cls = "inf" -> ~y.neg
         [] x.neg /\ ~y.neg -> TRUE
         [] ~x.neg /\ y.neg -> FALSE
         [] x.neg /\ y.neg -> F64MagLt(y, x)
         [] OTHER -> F64MagLt(x, y)

F64Le(x, y) == F64Lt(x, y) \/ F64Eq(x, y)

\* f64::is_finite
is_finite(x) == x.cls = "fin"

\* f64::fract: the fractional part, with the sign of the value.
fract(x) ==
    IF x.cls = "fin" THEN F64Fin(x.neg, LimbsZero, x.half) ELSE F64Nan

\* RangeInclusive<f64>::contains
RangeContains(lo, hi, x) == F64Le(lo, x) /\ F64Le(x, hi)

F64ZERO == F64Fin(FALSE, LimbsZero, 0)

(***************************************************************************)
(* convert.rs: the Scalar Codec                                            *)
(***************************************************************************)
IntTypes == {"u8", "u32", "i32", "u64"}
FullRangeTypes == {"u8", "u32", "i32"}

\* <$typ>::MAX and <$typ>::MIN of the Rust integer types.
TypeMAX(typ) ==
    CASE typ = "u8" -> NInt(FALSE, Limbs(0, 0, 0, 255))
      [] typ = "u32" -> NInt(FALSE, Limbs(0, 0, LimbBase - 1, LimbBase - 1))
      [] typ = "i32" -> NInt(FALSE, Limbs(0, 0, 2^15 - 1, LimbBase - 1))
      [] typ = "u64" -> NInt(FALSE, Limbs(LimbBase - 1, LimbBase - 1, LimbBase - 1, LimbBase - 1))

TypeMIN(typ) ==
    IF typ = "i32" THEN NInt(TRUE, Limbs(0, 0, 2^15, 0)) ELSE NInt(FALSE, LimbsZero)

\* The values a Rust integer type holds.
InType(v, typ) ==
    IF v.neg THEN v.mag # LimbsZero /\ LimbsLe(v.mag, TypeMIN(typ).mag)
             ELSE LimbsLe(v.mag, TypeMAX(typ).mag)

\* `n as f64` for an unsigned 64-bit magnitude: round to 53 significant
\* bits, ties to even.  The dropped bits (at most 11) all lie in the last limb.
RoundToF64(m) ==
    IF m[1] < 2^5 THEN m
    ELSE LET s == BitLen(m[1]) - 5
             p == 2^s
             r == m[4] % p
             odd == (m[4] \div p) % 2 = 1
             down == Limbs(m[1], m[2], m[3], m[4] - r)
         IN  IF 2 * r > p \/ (2 * r = p /\ odd) THEN LimbsAddSmall(down, p) ELSE down

\* `self as f64` / `<$typ>::MAX.into()`
IntAsF64(v) == F64Fin(v.neg, RoundToF64(v.mag), 0)

\* `value as $typ`: Rust's float-to-int cast truncates toward zero and
\* saturates; NaN becomes 0.
F64AsInt(x, typ) ==
    CASE x.cls = "nan" -> NInt(FALSE, LimbsZero)
      [] x.cls = "inf" -> IF x.neg THEN TypeMIN(typ) ELSE TypeMAX(typ)
      [] OTHER ->
            IF x.int = LimbsZero THEN NInt(FALSE, LimbsZero)
            ELSE IF x.neg
                 THEN IF LimbsLe(x.int, TypeMIN(typ).mag) THEN NInt(TRUE, x.int) ELSE TypeMIN(typ)
                 ELSE IF LimbsLe(x.int, TypeMAX(typ).mag) THEN NInt(FALSE, x.int) ELSE TypeMAX(typ)

\* Returns `true` if `value` represents an integer within the given range.
can_convert_js_number_to_int(value, lo, hi) ==
    is_finite(value) /\ F64Eq(fract(value), F64ZERO) /\ RangeContains(lo, hi, value)

\* 2**53 - 1, the maximum "safe" integer representable in an f64.
MAX_SAFE_JS_INTEGER == F64Fin(FALSE, Limbs(2^5 - 1, LimbBase - 1, LimbBase - 1, LimbBase - 1), 0)

\* Display of a limb value in decimal, one token per character.
DigitChar == <<"0", "1", "2", "3", "4", "5", "6", "7", "8", "9">>

RECURSIVE DecimalOf(_)
DecimalOf(m) ==
    LET d == LimbsDivMod10(m)
    IN  IF d.q = LimbsZero THEN <<DigitChar[d.r + 1]>>
        ELSE Append(DecimalOf(d.q), DigitChar[d.r + 1])

\* `{}` of an f64 (core::fmt::Display): "NaN", "inf", "-inf", and the
\* shortest decimal of a finite value, without exponent and without ".0".
DisplayF64(x) ==
    CASE x.cls = "nan" -> <<"NaN">>
      [] x.cls = "inf" -> IF x.neg THEN <<"-", "inf">> ELSE <<"inf">>
      [] OTHER -> (IF x.neg THEN <<"-">> ELSE <<>>) \o DecimalOf(x.int)
                      \o (IF x.half = 1 THEN <<".", "5">> ELSE <<>>)

\* `{}` of a u64.
DisplayInt(v) == (IF v.neg THEN <<"-">> ELSE <<>>) \o DecimalOf(v.mag)

\* Results: NeonResult<T>.  A failure is a pending host exception.
\* The value of a success is kept in a one-element sequence.
Ok(v) == [ok |-> TRUE, val |-> <<v>>, err |-> "", msg |-> <<>>]
Throw(kind, msg) == [ok |-> FALSE, val |-> <<>>, err |-> kind, msg |-> msg]
Val(r) == r.val[1]

\* A u64 conversion that accepts the whole range of the type.
convert_from_u64_whole_range(value) ==
    IF ~can_convert_js_number_to_int(value, F64ZERO, IntAsF64(TypeMAX("u64")))
    THEN Throw("RangeError", <<"cannot convert ">> \o DisplayF64(value) \o <<" to ", "u64">>)
    ELSE Ok(F64AsInt(value, "u64"))

\* impl SimpleArgTypeInfo for u64
convert_from_u64(value) ==
    IF ~can_convert_js_number_to_int(value, F64ZERO, MAX_SAFE_JS_INTEGER)
    THEN Throw("RangeError", <<"cannot convert ">> \o DisplayF64(value) \o <<" to ", "u64">>)
    ELSE Ok(F64AsInt(value, "u64"))

\* A macro body whose message leaves the value out.
convert_from_full_range_no_value(typ, value) ==
    IF ~can_convert_js_number_to_int(value, F64ZERO, IntAsF64(TypeMAX(typ)))
    THEN Throw("RangeError", <<"cannot convert ">> \o <<" to ", typ>>)
    ELSE Ok(F64AsInt(value, typ))

\* full_range_integer!: impl SimpleArgTypeInfo for $typ
convert_from_full_range(typ, value) ==
    IF ~can_convert_js_number_to_int(value, F64ZERO, IntAsF64(TypeMAX(typ)))
    THEN Throw("RangeError", <<"cannot convert ">> \o DisplayF64(value) \o <<" to ", typ>>)
    ELSE Ok(F64AsInt(value, typ))

\* SimpleArgTypeInfo::convert_from, by target type.
convert_from(typ, value) ==
    IF typ = "u64" THEN convert_from_u64(value) ELSE convert_from_full_range(typ, value)

\* A u64 result conversion without the safe-integer check.
convert_into_u64_unchecked(self) == Ok(IntAsF64(self))

\* impl ResultTypeInfo for u64
convert_into_u64(self) ==
    LET result == IntAsF64(self)
    IN  IF F64Lt(MAX_SAFE_JS_INTEGER, result)
        THEN Throw("RangeError", <<"precision loss during conversion of ">>
                                     \o DisplayInt(self) \o <<" to f64">>)
        ELSE Ok(IntAsF64(self))

\* full_range_integer!: impl ResultTypeInfo for $typ
convert_into_full_range(typ, self) == Ok(IntAsF64(self))

\* ResultTypeInfo::convert_into, by source type.
convert_into(typ, self) ==
    IF typ = "u64" THEN convert_into_u64(self) ELSE convert_into_full_range(typ, self)

(***************************************************************************)
(* convert.rs: host values, move-once storage and the Optional adapter     *)
(***************************************************************************)
\* A host value (JsValue) with its run-time type tag.  A host string is a
\* sequence of UTF-16 code units.
JsNull == [tag |-> "null", num |-> F64Nan, str |-> <<>>]
JsUndefined == [tag |-> "undefined", num |-> F64Nan, str |-> <<>>]
JsBoolean == [tag |-> "boolean", num |-> F64Nan, str |-> <<>>]
JsNumber(x) == [tag |-> "number", num |-> x, str |-> <<>>]
JsString(units) == [tag |-> "string", num |-> F64Nan, str |-> units]

\* Option<T>
None == <<>>
Some(v) == <<v>>

\* JsString::value: the units as a Rust String; a lone surrogate has no
\* UTF-8 form and comes out as U+FFFD.
JsStringValue(units) ==
    [i \in 1..Len(units) |-> IF units[i] = "\\uD800" THEN "\\uFFFD" ELSE units[i]]

\* impl SimpleArgTypeInfo for String
convert_from_String(foreign) == Ok(JsStringValue(foreign.str))

SimpleTypes == IntTypes \cup {"String"}

\* SimpleArgTypeInfo::ArgType
ArgTypeOf(typ) == IF typ = "String" THEN "string" ELSE "number"

\* SimpleArgTypeInfo::convert_from on a host value already of ArgType.
convert_from_simple(typ, foreign) ==
    IF typ = "String" THEN convert_from_String(foreign) ELSE convert_from(typ, foreign.num)

\* super::DefaultFinalize<T>
DefaultFinalize(x) == [finalize |-> "default", inner |-> x]

\* FinalizableOption<T>
FinalizableOption(x) == [finalize |-> "option", inner |-> x]

\* impl ArgTypeInfo for T: SimpleArgTypeInfo -- borrow
Simple_borrow(typ, foreign) ==
    LET r == convert_from_simple(typ, foreign)
    IN  IF r.ok THEN Ok(Some(Val(r))) ELSE r

\* impl AsyncArgTypeInfo for T: SimpleArgTypeInfo -- save_async_arg
Simple_save_async_arg(typ, foreign) ==
    LET r == convert_from_simple(typ, foreign)
    IN  IF r.ok THEN Ok(DefaultFinalize(Some(Val(r)))) ELSE r

\* Handle::downcast_or_throw: a TypeError when the tag is not the wanted one.
DowncastError(foreign, want) ==
    Throw("TypeError", <<"failed to downcast ", foreign.tag, " to ", want>>)

\* Each adapter returns its result together with the calls it made to the
\* element contract, in order.
Traced(res, calls) == [res |-> res, calls |-> calls]
ElemCall(typ, foreign) == [typ |-> typ, arg |-> foreign]

\* An adapter that tries the element's downcast before looking for null.
Option_borrow_downcast_first(typ, foreign) ==
    IF foreign.tag # ArgTypeOf(typ)
    THEN Traced(DowncastError(foreign, ArgTypeOf(typ)), <<>>)
    ELSE LET r == Simple_borrow(typ, foreign)
         IN  Traced(IF r.ok THEN Ok(Some(Val(r))) ELSE r, <<ElemCall(typ, foreign)>>)

\* impl ArgTypeInfo for Option<T> -- borrow
Option_borrow(typ, foreign) ==
    IF foreign.tag = "null"
    THEN Traced(Ok(None), <<>>)
    ELSE IF foreign.tag # ArgTypeOf(typ)
         THEN Traced(DowncastError(foreign, ArgTypeOf(typ)), <<>>)
         ELSE LET r == Simple_borrow(typ, foreign)
              IN  Traced(IF r.ok THEN Ok(Some(Val(r))) ELSE r, <<ElemCall(typ, foreign)>>)

\* impl AsyncArgTypeInfo for Option<T> -- save_async_arg
Option_save_async_arg(typ, foreign) ==
    IF foreign.tag = "null"
    THEN Traced(Ok(FinalizableOption(None)), <<>>)
    ELSE IF foreign.tag # ArgTypeOf(typ)
         THEN Traced(DowncastError(foreign, ArgTypeOf(typ)), <<>>)
         ELSE LET r == Simple_save_async_arg(typ, foreign)
              IN  Traced(IF r.ok THEN Ok(FinalizableOption(Some(Val(r)))) ELSE r,
                         <<ElemCall(typ, foreign)>>)

(***************************************************************************)
(* The Scalar Codec as a state machine: each step is one call.             *)
(***************************************************************************)
Pow2Limbs(k) ==  \* 2^k, 0 <= k <= 64
    CASE k < 16 -> Limbs(0, 0, 0, 2^k)
      [] k < 32 -> Limbs(0, 0, 2^(k - 16), 0)
      [] k < 48 -> Limbs(0, 2^(k - 32), 0, 0)
      [] OTHER -> Limbs(2^(k - 48), 0, 0, 0)

\* 2^k - 1, 1 <= k <= 64
Pow2Minus1Limbs(k) ==
    CASE k <= 16 -> Limbs(0, 0, 0, 2^k - 1)
      [] k <= 32 -> Limbs(0, 0, 2^(k - 16) - 1, LimbBase - 1)
      [] k <= 48 -> Limbs(0, 2^(k - 32) - 1, LimbBase - 1, LimbBase - 1)
      [] OTHER -> Limbs(2^(k - 48) - 1, LimbBase - 1, LimbBase - 1, LimbBase - 1)

\* Integer magnitudes at and around the limits of the four types.
EdgeMagnitudes ==
    { LimbsZero, Limbs(0, 0, 0, 1), Limbs(0, 0, 0, 7),
      Pow2Minus1Limbs(8), Pow2Limbs(8),
      Pow2Minus1Limbs(31), Pow2Limbs(31), LimbsAddSmall(Pow2Limbs(31), 1),
      Pow2Minus1Limbs(32), Pow2Limbs(32),
      Pow2Minus1Limbs(53), Pow2Limbs(53) }

\* Host numbers an argument can be: every class of double.
HostNumbers ==
    {F64Nan, F64Inf(FALSE), F64Inf(TRUE)}
        \cup {F64Fin(neg, m, 0) : neg \in BOOLEAN, m \in EdgeMagnitudes}
        \cup {F64Fin(FALSE, LimbsAddSmall(Pow2Limbs(53), 2), 0),
              F64Fin(FALSE, Pow2Limbs(63), 0), F64Fin(FALSE, Limbs(LimbBase, 0, 0, 0), 0)}
        \cup {F64Fin(neg, m, 1) : neg \in BOOLEAN,
                  m \in {LimbsZero, Limbs(0, 0, 0, 1), Pow2Minus1Limbs(8), Pow2Minus1Limbs(32)}}

\* Native values a result can be, per type.
NativeValues(typ) ==
    {v \in {NInt(FALSE, m) : m \in EdgeMagnitudes} : InType(v, typ)}
        \cup (IF typ = "i32"
              THEN {NInt(TRUE, Limbs(0, 0, 0, 1)), NInt(TRUE, Limbs(0, 0, 0, 7)), TypeMIN("i32")}
              ELSE {})
        \cup (IF typ = "u64"
              THEN {NInt(FALSE, m) : m \in {LimbsAddSmall(Pow2Limbs(53), 1),
                                            LimbsAddSmall(Pow2Limbs(53), 3),
                                            Pow2Minus1Limbs(54), Pow2Limbs(63),
                                            LimbsAddSmall(Pow2Limbs(63), 1024),
                                            LimbsAddSmall(Pow2Limbs(63), 3072),
                                            Pow2Minus1Limbs(64)}}
              ELSE {})

\* No buffer is in use.
BufIdle ==
    /\ debugLog = FALSE
    /\ jsBuf = <<>>
    /\ guard = None
    /\ bufAtBorrow = <<>>
    /\ bufSeen = None
    /\ bufPhase = "idle"
    /\ errorLog = <<>>

\* The native objects that host wrappers carry, each in a RefCell.
NativeObjects == {"o1", "o2"}

NoBorrow == [kind |-> "none", wrapper |-> "", outcome |-> "", obj |-> "",
             sharedBefore |-> 0, exclusiveBefore |-> 0, depth |-> 0]

\* No synchronous call is in progress and no object is borrowed.
HandleIdle ==
    /\ cellFlag = [o \in NativeObjects |-> 0]
    /\ callStack = <<>>
    /\ lastBorrow = NoBorrow

\* Values of the module's `Errors` property.
ErrorsUndefined == [kind |-> "undefined", classes |-> <<>>]
ErrorsNotAnObject == [kind |-> "number", classes |-> <<>>]
ErrorsObject(classes) == [kind |-> "object", classes |-> classes]

NoException == [class |-> "", args |-> <<>>]
NoThrow == [error |-> [family |-> "none", variant |-> "", name |-> "", device |-> ""],
            errors |-> ErrorsUndefined, thrown |-> NoException]

\* The module is loaded, no exception class is registered, nothing was thrown.
ErrIdle ==
    /\ moduleErrors = ErrorsUndefined
    /\ lastThrow = NoThrow
    /\ warnLog = <<>>
    /\ errLookups = <<>>

NoWork == [state |-> "none", failed |-> 0]
NoPromise == [state |-> "none", error |-> 0]
NoPersist == [wrapper |-> "", res |-> Throw("", <<>>), before |-> {}, after |-> {}]

\* No asynchronous call has been made.
AsyncIdle ==
    /\ asyncPhase = "idle"
    /\ asyncThread = "host"
    /\ asyncStore = <<>>
    /\ asyncRoots = {}
    /\ asyncFinal = <<>>
    /\ asyncReleases = <<>>
    /\ asyncWork = NoWork
    /\ asyncPromise = NoPromise
    /\ lastPersist = NoPersist

OptNoCall == [variant |-> "none", elem |-> "u8", foreign |-> JsNull, res |-> Throw("", <<>>)]

OptIdle == optOp = OptNoCall /\ elemCalls = <<>>

\* No simple argument has been converted.
NoStorage == [variant |-> "none", typ |-> "u8", foreign |-> JsNull, stored |-> None]

MoveIdle == simpleStored = NoStorage /\ simpleLoads = <<>>

NoCall == [op |-> "none", typ |-> "u8", host |-> F64Nan, native |-> NInt(FALSE, LimbsZero),
           res |-> Throw("", <<>>), back |-> Throw("", <<>>)]

\* A bridged function receives the host number `value` for a parameter of type typ.
CallConvertFrom(typ, value) ==
    /\ scalarOp' = [NoCall EXCEPT !.op = "from", !.typ = typ, !.host = value,
                                  !.res = convert_from(typ, value)]
    /\ UNCHANGED otherThanScalar

\* A bridged function returns the native value `self` of type typ.
CallConvertInto(typ, self) ==
    /\ scalarOp' = [NoCall EXCEPT !.op = "into", !.typ = typ, !.native = self,
                                  !.res = convert_into(typ, self)]
    /\ UNCHANGED otherThanScalar

\* The host passes the number it was just given back as an argument of the same type.
PassBack ==
    /\ scalarOp.op = "into"
    /\ scalarOp.res.ok
    /\ scalarOp' = [scalarOp EXCEPT !.op = "roundtrip", !.host = Val(scalarOp.res),
                                    !.back = convert_from(scalarOp.typ, Val(scalarOp.res))]
    /\ UNCHANGED otherThanScalar

ScalarIdle == scalarOp = NoCall

InitScalar ==
    /\ ScalarIdle
    /\ OptIdle
    /\ MoveIdle
    /\ BufIdle
    /\ HandleIdle
    /\ ErrIdle
    /\ AsyncIdle

NextScalar ==
    \/ \E typ \in IntTypes, value \in HostNumbers : CallConvertFrom(typ, value)
    \/ \E typ \in IntTypes : \E self \in NativeValues(typ) : CallConvertInto(typ, self)
    \/ PassBack

SpecScalar == InitScalar /\ [][NextScalar]_vars

(***************************************************************************)
(* Properties of the Scalar Codec                                          *)
(***************************************************************************)
\* sub occurs in s as a contiguous run.
Contains(s, sub) ==
    \E i \in 0..(Len(s) - Len(sub)) : \A j \in 1..Len(sub) : s[i + j] = sub[j]

\* The largest magnitude the contract admits for each type.
AdmittedMax(typ) ==
    CASE typ = "u8" -> Pow2Minus1Limbs(8)
      [] typ = "u32" -> Pow2Minus1Limbs(32)
      [] typ = "i32" -> Pow2Minus1Limbs(31)
      [] typ = "u64" -> Pow2Minus1Limbs(53)

\* x is a finite number with zero fractional part in [0, max(typ)].
IsIntegerInZeroToMax(x, typ) ==
    /\ x.cls = "fin"
    /\ x.half = 0
    /\ x.neg => x.int = LimbsZero
    /\ LimbsLe(x.int, AdmittedMax(typ))

C2_U64RoundTripOrRangeError ==
    scalarOp.typ = "u64" =>
        /\ scalarOp.op = "into" =>
              IF LimbsLe(scalarOp.native.mag, Pow2Minus1Limbs(53))
              THEN scalarOp.res.ok
              ELSE ~scalarOp.res.ok /\ scalarOp.res.err = "RangeError" /\ scalarOp.res.val = <<>>
        /\ scalarOp.op = "roundtrip" =>
              /\ LimbsLe(scalarOp.native.mag, Pow2Minus1Limbs(53))
              /\ scalarOp.back = Ok(scalarOp.native)

C2_Witness ==
    /\ scalarOp.op = "roundtrip"
    /\ scalarOp.typ = "u64"
    /\ scalarOp.native = NInt(FALSE, Pow2Minus1Limbs(53))
    /\ scalarOp.back.ok

\* C3: for u8, u32 and i32 every value of the type (negative i32 included)
\* is accepted by convert_from, and convert_into then convert_from returns it.
C3_FullRangeAcceptsEveryValue ==
    scalarOp.typ \in FullRangeTypes =>
        /\ (/\ scalarOp.op = "from"
            /\ scalarOp.host.cls = "fin"
            /\ scalarOp.host.half = 0
            /\ InType(NInt(scalarOp.host.neg /\ scalarOp.host.int # LimbsZero, scalarOp.host.int),
                      scalarOp.typ))
              => scalarOp.res.ok
        /\ scalarOp.op = "into" => scalarOp.res.ok
        /\ scalarOp.op = "roundtrip" => scalarOp.back = Ok(scalarOp.native)

\* C4: a non-integral, infinite or NaN host number is refused for every
\* integer type with a range error whose message holds the value and the
\* name of the type; no native value is produced.
C4_NonIntegralIsRangeError ==
    (scalarOp.op = "from" /\ (scalarOp.host.cls # "fin" \/ scalarOp.host.half # 0)) =>
        /\ ~scalarOp.res.ok
        /\ scalarOp.res.val = <<>>
        /\ scalarOp.res.err = "RangeError"
        /\ Contains(scalarOp.res.msg, DisplayF64(scalarOp.host))
        /\ Contains(scalarOp.res.msg, <<scalarOp.typ>>)

C4_Witness ==
    /\ scalarOp.op = "from"
    /\ scalarOp.typ = "i32"
    /\ scalarOp.host = F64Fin(TRUE, Pow2Minus1Limbs(8), 1)
    /\ scalarOp.res.msg = <<"cannot convert ", "-", "2", "5", "5", ".", "5", " to ", "i32">>

(***************************************************************************)
(* The Optional adapter as a state machine: each step is one call.         *)
(***************************************************************************)
HostStrings == {<<>>, <<"a", "b">>, <<"a", "\\uD800">>}

\* Numbers an optional argument is tried with: accepted and refused ones.
OptionalNumbers ==
    {F64Nan, F64Inf(FALSE), F64ZERO, F64Fin(FALSE, Limbs(0, 0, 0, 7), 0),
     F64Fin(FALSE, Limbs(0, 0, 0, 1), 1), F64Fin(TRUE, Limbs(0, 0, 0, 1), 0),
     F64Fin(FALSE, Pow2Limbs(8), 0), F64Fin(FALSE, Pow2Limbs(32), 0),
     F64Fin(FALSE, Pow2Limbs(53), 0)}

HostValues ==
    {JsNull, JsUndefined, JsBoolean}
        \cup {JsNumber(x) : x \in OptionalNumbers}
        \cup {JsString(u) : u \in HostStrings}

\* A synchronous bridged function receives `foreign` for an Option<typ> parameter.
CallOptionBorrow(typ, foreign) ==
    LET t == Option_borrow(typ, foreign)
    IN  /\ optOp' = [variant |-> "sync", elem |-> typ, foreign |-> foreign, res |-> t.res]
        /\ elemCalls' = t.calls
        /\ UNCHANGED otherThanOpt

\* An asynchronous bridged function receives `foreign` for an Option<typ> parameter.
CallOptionSaveAsync(typ, foreign) ==
    LET t == Option_save_async_arg(typ, foreign)
    IN  /\ optOp' = [variant |-> "async", elem |-> typ, foreign |-> foreign, res |-> t.res]
        /\ elemCalls' = t.calls
        /\ UNCHANGED otherThanOpt

InitOptional ==
    /\ ScalarIdle
    /\ OptIdle
    /\ MoveIdle
    /\ BufIdle
    /\ HandleIdle
    /\ ErrIdle
    /\ AsyncIdle

NextOptional ==
    \/ \E typ \in SimpleTypes, foreign \in HostValues : CallOptionBorrow(typ, foreign)
    \/ \E typ \in SimpleTypes, foreign \in HostValues : CallOptionSaveAsync(typ, foreign)

SpecOptional == InitOptional /\ [][NextOptional]_vars

(***************************************************************************)
(* Move-once storage of a simple argument                                  *)
(***************************************************************************)
\* Loads tried on one storage.
MaxLoads == 3

\* Option::take followed by expect: the value and the emptied storage, or a panic.
Loaded(res, stored) == [res |-> res, stored |-> stored]

\* A load that reads the value and leaves it in place.
Simple_load_from_keeps_value(stored) ==
    IF stored # None THEN Loaded(Ok(stored[1]), stored)
                     ELSE Loaded(Throw("panic", <<"should only be loaded once">>), None)

\* impl ArgTypeInfo for T: SimpleArgTypeInfo -- load_from
Simple_load_from(stored) ==
    IF stored # None THEN Loaded(Ok(stored[1]), None)
                     ELSE Loaded(Throw("panic", <<"should only be loaded once">>), None)

\* impl AsyncArgTypeInfo for T: SimpleArgTypeInfo -- load_async_arg
Simple_load_async_arg(stored) ==
    IF stored.inner # None THEN Loaded(Ok(stored.inner[1]), DefaultFinalize(None))
                           ELSE Loaded(Throw("panic", <<"should only be loaded once">>),
                                       DefaultFinalize(None))

\* Host values of the type the simple argument declares as its ArgType.
ValuesFor(typ) == {foreign \in HostValues : foreign.tag = ArgTypeOf(typ)}

\* A synchronous bridged function borrows a simple argument; a failed
\* conversion throws and leaves no storage.
SimpleBorrow(typ, foreign) ==
    LET r == Simple_borrow(typ, foreign)
    IN  /\ simpleStored' = IF r.ok
                           THEN [variant |-> "sync", typ |-> typ, foreign |-> foreign,
                                 stored |-> Val(r)]
                           ELSE [variant |-> "thrown", typ |-> typ, foreign |-> foreign,
                                 stored |-> None]
        /\ simpleLoads' = <<>>
        /\ UNCHANGED otherThanMove

\* An asynchronous bridged function saves a simple argument.
SimpleSaveAsync(typ, foreign) ==
    LET r == Simple_save_async_arg(typ, foreign)
    IN  /\ simpleStored' = IF r.ok
                           THEN [variant |-> "async", typ |-> typ, foreign |-> foreign,
                                 stored |-> Val(r)]
                           ELSE [variant |-> "thrown", typ |-> typ, foreign |-> foreign,
                                 stored |-> None]
        /\ simpleLoads' = <<>>
        /\ UNCHANGED otherThanMove

\* The native code loads the argument from its storage; a caller that
\* catches the unwind of a failed load can load again.
SimpleLoad ==
    /\ simpleStored.variant \in {"sync", "async"}
    /\ Len(simpleLoads) < MaxLoads
    /\ LET l == IF simpleStored.variant = "sync"
                THEN Simple_load_from(simpleStored.stored)
                ELSE Simple_load_async_arg(simpleStored.stored)
       IN  /\ simpleStored' = [simpleStored EXCEPT !.stored = l.stored]
           /\ simpleLoads' = Append(simpleLoads, l.res)
    /\ UNCHANGED otherThanMove

InitMoveOnce ==
    /\ ScalarIdle
    /\ OptIdle
    /\ MoveIdle
    /\ BufIdle
    /\ HandleIdle
    /\ ErrIdle
    /\ AsyncIdle

NextMoveOnce ==
    \/ \E typ \in SimpleTypes : \E foreign \in ValuesFor(typ) : SimpleBorrow(typ, foreign)
    \/ \E typ \in SimpleTypes : \E foreign \in ValuesFor(typ) : SimpleSaveAsync(typ, foreign)
    \/ SimpleLoad

SpecMoveOnce == InitMoveOnce /\ [][NextMoveOnce]_vars

\* C15: for either kind of move-once storage, whatever the simple type, the
\* first load returns the value the conversion produced and every later load
\* fails with 'should only be loaded once'.
C15_LoadedOnlyOnce ==
    simpleStored.variant \in {"sync", "async"} =>
        \A n \in 1..Len(simpleLoads) :
            simpleLoads[n] = IF n = 1
                             THEN Ok(Val(convert_from_simple(simpleStored.typ,
                                                             simpleStored.foreign)))
                             ELSE Throw("panic", <<"should only be loaded once">>)

\* A string loaded three times from the storage of a synchronous call.
C15_Witness ==
    /\ simpleStored.variant = "sync"
    /\ simpleStored.typ = "String"
    /\ Len(simpleLoads) = MaxLoads
    /\ simpleLoads[1] = Ok(<<"a", "b">>)
    /\ simpleLoads[2].err = "panic"

\* The element contract's own result for the variant of the last call.
ElementResult ==
    IF optOp.variant = "sync" THEN Simple_borrow(optOp.elem, optOp.foreign)
                              ELSE Simple_save_async_arg(optOp.elem, optOp.foreign)

\* Present(x) in the storage of the variant of the last call.
WrapPresent(x) == IF optOp.variant = "sync" THEN Some(x) ELSE FinalizableOption(Some(x))
WrapAbsent == IF optOp.variant = "sync" THEN None ELSE FinalizableOption(None)

\* C5: the Optional adapter, synchronous and asynchronous: null is absence
\* and the element conversion does not run; a non-null value of another host
\* type is a type error and the element conversion does not run; a non-null
\* value of the element's host type gives the element's own result, present.
C5_OptionalAdapter ==
    optOp.variant # "none" =>
        CASE optOp.foreign.tag = "null" ->
                /\ optOp.res = Ok(WrapAbsent)
                /\ elemCalls = <<>>
          [] optOp.foreign.tag # "null" /\ optOp.foreign.tag # ArgTypeOf(optOp.elem) ->
                /\ ~optOp.res.ok
                /\ optOp.res.err = "TypeError"
                /\ elemCalls = <<>>
          [] OTHER ->
                /\ elemCalls = <<ElemCall(optOp.elem, optOp.foreign)>>
                /\ IF ElementResult.ok
                   THEN optOp.res = Ok(WrapPresent(Val(ElementResult)))
                   ELSE optOp.res = ElementResult

C5_Witness ==
    /\ optOp.variant = "async"
    /\ optOp.elem = "u8"
    /\ optOp.foreign = JsNumber(F64Fin(FALSE, Limbs(0, 0, 0, 7), 0))
    /\ optOp.res = Ok(FinalizableOption(Some(DefaultFinalize(Some(NInt(FALSE, Limbs(0, 0, 0, 7)))))))

(***************************************************************************)
(* convert.rs: the Buffer Aliasing Guard                                   *)
(***************************************************************************)
\* const LIMIT: usize = 1024;
LIMIT == 1024

\* std's DefaultHasher is a keyed 64-bit hash of the bytes written to it.
\* Here: a polynomial hash of the bytes in a small prime field, computed by
\* halving so that long buffers need no deep recursion.  Like the real one
\* it is deterministic and not injective.
HashField == 2^15 - 19

RECURSIVE HasherWrite(_, _, _)
HasherWrite(bytes, lo, hi) ==
    IF lo > hi THEN [h |-> 0, pw |-> 1]
    ELSE IF lo = hi THEN [h |-> (bytes[lo] + 1) % HashField, pw |-> 31]
    ELSE LET mid == (lo + hi) \div 2
             l == HasherWrite(bytes, lo, mid)
             r == HasherWrite(bytes, mid + 1, hi)
         IN  [h |-> (l.h * r.pw + r.h) % HashField, pw |-> (l.pw * r.pw) % HashField]

\* DefaultHasher::new(); hasher.write(bytes); hasher.finish()
HasherDigest(bytes) == HasherWrite(bytes, 1, Len(bytes)).h

\* A checksum that always covers the whole buffer.
calculate_checksum_whole_buffer(buffer, debug) == HasherDigest(buffer)

\* fn calculate_checksum_for_immutable_buffer(buffer: &[u8]) -> u64
calculate_checksum_for_immutable_buffer(buffer, debug) ==
    IF debug \/ Len(buffer) < LIMIT
    THEN HasherDigest(buffer)
    ELSE HasherDigest(SubSeq(buffer, 1, LIMIT))

\* A borrowed slice is a pointer into the host buffer's storage and a
\* length; an empty buffer gives the static empty slice.
EmptySlice == [ptr |-> "static", len |-> 0]
SliceOf(len) == IF len = 0 THEN EmptySlice ELSE [ptr |-> "jsBuf", len |-> len]

\* Reading a slice reads the host buffer's storage as it is now.
SliceBytes(slice, heap) == IF slice.ptr = "static" THEN <<>> ELSE SubSeq(heap, 1, slice.len)

\* AssumedImmutableBuffer::new
AssumedImmutableBuffer_new(heap, debug) ==
    LET buffer == SliceOf(Len(heap))
    IN  [buffer |-> buffer,
         hash |-> calculate_checksum_for_immutable_buffer(SliceBytes(buffer, heap), debug)]

\* impl Drop for AssumedImmutableBuffer: the lines it logs.
AssumedImmutableBuffer_drop(self, heap, debug) ==
    IF self.hash # calculate_checksum_for_immutable_buffer(SliceBytes(self.buffer, heap), debug)
    THEN <<"buffer modified while in use">>
    ELSE <<>>

\* impl ArgTypeInfo for &[u8] -- load_from
Buffer_load_from(stored) == stored.buffer

\* Host buffers: empty, short, and at and around LIMIT.
BufferLengths == {0, 2, LIMIT, LIMIT + 2}
InitialBytes(len) == [i \in 1..len |-> (7 * i + 3) % 256]

\* Where and what the host writes while the native code holds the slice.
WritePositions == {1, LIMIT, LIMIT + 1}
WriteValues == {0, 255}

\* impl ArgTypeInfo for &[u8] -- borrow
BufBorrow ==
    /\ bufPhase = "idle"
    /\ guard' = Some(AssumedImmutableBuffer_new(jsBuf, debugLog))
    /\ bufAtBorrow' = jsBuf
    /\ bufPhase' = "borrowed"
    /\ errorLog' = <<>>
    /\ UNCHANGED <<debugLog, jsBuf, bufSeen>>
    /\ UNCHANGED otherThanBuf

\* load_from, and the native code reading the slice it returns.
BufLoad ==
    /\ bufPhase = "borrowed"
    /\ bufSeen = None
    /\ bufSeen' = Some(SliceBytes(Buffer_load_from(guard[1]), jsBuf))
    /\ UNCHANGED <<debugLog, jsBuf, guard, bufAtBorrow, bufPhase, errorLog>>
    /\ UNCHANGED otherThanBuf

\* The host (another reference to the same buffer) writes a byte.
HostWrite(pos, byte) ==
    /\ bufPhase = "borrowed"
    /\ pos <= Len(jsBuf)
    /\ jsBuf' = [jsBuf EXCEPT ![pos] = byte]
    /\ UNCHANGED <<debugLog, guard, bufAtBorrow, bufSeen, bufPhase, errorLog>>
    /\ UNCHANGED otherThanBuf

\* The call ends: the storage goes out of scope (Drop).
BufDrop ==
    /\ bufPhase = "borrowed"
    /\ errorLog' = errorLog \o AssumedImmutableBuffer_drop(guard[1], jsBuf, debugLog)
    /\ guard' = None
    /\ bufPhase' = "released"
    /\ UNCHANGED <<debugLog, jsBuf, bufAtBorrow, bufSeen>>
    /\ UNCHANGED otherThanBuf

InitBuffer ==
    /\ ScalarIdle
    /\ OptIdle
    /\ MoveIdle
    /\ HandleIdle
    /\ ErrIdle
    /\ AsyncIdle
    /\ debugLog \in BOOLEAN
    /\ \E len \in BufferLengths : jsBuf = InitialBytes(len)
    /\ guard = None
    /\ bufAtBorrow = <<>>
    /\ bufSeen = None
    /\ bufPhase = "idle"
    /\ errorLog = <<>>

NextBuffer ==
    \/ BufBorrow
    \/ BufLoad
    \/ \E pos \in WritePositions, byte \in WriteValues : HostWrite(pos, byte)
    \/ BufDrop

SpecBuffer == InitBuffer /\ [][NextBuffer]_vars

\* The part of a buffer the checksum covers.
CheckedPart(bytes) ==
    IF debugLog \/ Len(bytes) < LIMIT THEN bytes ELSE SubSeq(bytes, 1, LIMIT)

\* C6 as stated: the borrowed slice equals the buffer's contents at borrow
\* time; a buffer mutated (at any position) before the borrow ends makes the
\* release log exactly one integrity error; an unmutated one logs nothing.
C6_AnyMutationIsLogged ==
    /\ (bufPhase = "borrowed" /\ jsBuf = bufAtBorrow) =>
            SliceBytes(Buffer_load_from(guard[1]), jsBuf) = bufAtBorrow
    /\ bufPhase = "released" =>
            IF jsBuf # bufAtBorrow THEN Len(errorLog) = 1 ELSE Len(errorLog) = 0

\* C6 as amended: the borrowed slice equals the buffer's contents at borrow
\* time; the release logs at most one integrity error: exactly one when
\* the checksum of the checked part (the whole buffer with debug logging on
\* or a length below 1024, its first 1024 bytes otherwise) differs from the
\* one taken at borrow time, and none when the checked part is unchanged --
\* so none for an unmutated buffer, and none for a mutation past the
\* checked part.
C6_CheckedPartMutationIsLogged ==
    /\ (bufPhase = "borrowed" /\ jsBuf = bufAtBorrow) =>
            SliceBytes(Buffer_load_from(guard[1]), jsBuf) = bufAtBorrow
    /\ bufPhase = "released" =>
            /\ Len(errorLog) <= 1
            /\ CheckedPart(jsBuf) = CheckedPart(bufAtBorrow) => errorLog = <<>>
            /\ HasherDigest(CheckedPart(jsBuf)) # HasherDigest(CheckedPart(bufAtBorrow))
                  => errorLog = <<"buffer modified while in use">>
            /\ errorLog # <<>> => CheckedPart(jsBuf) # CheckedPart(bufAtBorrow)

\* A mutation past the checked part went unreported, one inside it was reported.
C6_Witness ==
    /\ bufPhase = "released"
    /\ ~debugLog
    /\ Len(jsBuf) = LIMIT + 2
    /\ jsBuf[LIMIT + 1] # bufAtBorrow[LIMIT + 1]
    /\ bufSeen # None
    /\ errorLog = <<>>

(***************************************************************************)
(* convert.rs: the Opaque Handle Bridge, objects declared `mut = true`     *)
(***************************************************************************)
\* Reentrant calls in progress at once, and handle arguments per call.
MaxDepth == 2
MaxHandleArgs == 2

\* Host wrapper objects and what their `_nativeHandle` property holds: a
\* JsBox<RefCell<T>> of a native object (two wrappers may carry the same
\* box), nothing, a box of another type, or a getter that throws.
Wrappers == {"w1", "w1alias", "w2", "wNoHandle", "wOtherType", "wGetterThrows"}

NativeHandleOf(w) ==
    CASE w = "w1" -> [kind |-> "box", obj |-> "o1"]
      [] w = "w1alias" -> [kind |-> "box", obj |-> "o1"]
      [] w = "w2" -> [kind |-> "box", obj |-> "o2"]
      [] w = "wNoHandle" -> [kind |-> "undefined", obj |-> ""]
      [] w = "wOtherType" -> [kind |-> "otherbox", obj |-> ""]
      [] w = "wGetterThrows" -> [kind |-> "throws", obj |-> ""]

\* std::cell::RefCell: the flag is 0 when unused, n > 0 with n shared
\* borrows out, -1 with an exclusive borrow out.
\* A borrow that is refused as soon as any borrow is out.
RefCell_borrow_refusing_shared(flag) ==
    IF flag = 0 THEN [ok |-> TRUE, flag |-> 1] ELSE [ok |-> FALSE, flag |-> flag]

\* RefCell::borrow panics when an exclusive borrow is out.
RefCell_borrow(flag) ==
    IF flag >= 0 THEN [ok |-> TRUE, flag |-> flag + 1] ELSE [ok |-> FALSE, flag |-> flag]

\* A borrow_mut that only looks for another exclusive borrow.
RefCell_borrow_mut_ignoring_shared(flag) ==
    IF flag >= 0 THEN [ok |-> TRUE, flag |-> -1] ELSE [ok |-> FALSE, flag |-> flag]

\* RefCell::borrow_mut panics when any borrow is out.
RefCell_borrow_mut(flag) ==
    IF flag = 0 THEN [ok |-> TRUE, flag |-> -1] ELSE [ok |-> FALSE, flag |-> flag]

\* A drop that leaves the flag as the borrow set it.
ReleaseStorage_keeps_flag(flags, st) == flags

\* Drop of a Ref / RefMut gives the flag back.
ReleaseStorage(flags, st) ==
    IF st.kind = "Ref" THEN [flags EXCEPT ![st.obj] = @ - 1]
                       ELSE [flags EXCEPT ![st.obj] = @ + 1]

\* The storages of a frame are dropped last first.
RECURSIVE ReleaseFrame(_, _)
ReleaseFrame(flags, frame) ==
    IF frame = <<>> THEN flags
    ELSE ReleaseFrame(ReleaseStorage(flags, frame[Len(frame)]), SubSeq(frame, 1, Len(frame) - 1))

BorrowResult(outcome, obj, storage, flag) ==
    [outcome |-> outcome, obj |-> obj, storage |-> storage, flag |-> flag]

\* node_bridge_handle!(mut = true): impl ArgTypeInfo for &T -- borrow
Handle_borrow_shared(w, flags) ==
    LET h == NativeHandleOf(w)
    IN  CASE h.kind = "throws" -> BorrowResult("Error", "", <<>>, 0)
          [] h.kind # "box" /\ h.kind # "throws" -> BorrowResult("TypeError", "", <<>>, 0)
          [] OTHER ->
                LET b == RefCell_borrow(flags[h.obj])
                IN  IF b.ok
                    THEN BorrowResult("ok", h.obj, <<[kind |-> "Ref", obj |-> h.obj]>>, b.flag)
                    ELSE BorrowResult("panic", h.obj, <<>>, b.flag)

\* node_bridge_handle!(mut = true): impl ArgTypeInfo for &mut T -- borrow
Handle_borrow_mut(w, flags) ==
    LET h == NativeHandleOf(w)
    IN  CASE h.kind = "throws" -> BorrowResult("Error", "", <<>>, 0)
          [] h.kind # "box" /\ h.kind # "throws" -> BorrowResult("TypeError", "", <<>>, 0)
          [] OTHER ->
                LET b == RefCell_borrow_mut(flags[h.obj])
                IN  IF b.ok
                    THEN BorrowResult("ok", h.obj, <<[kind |-> "RefMut", obj |-> h.obj]>>, b.flag)
                    ELSE BorrowResult("panic", h.obj, <<>>, b.flag)

\* The storages of kind k on object o held by the calls in progress.
Outstanding(stack, o, k) ==
    LET InFrame(f) == Cardinality({i \in 1..Len(f) : f[i].obj = o /\ f[i].kind = k})
        Sum[n \in 0..Len(stack)] == IF n = 0 THEN 0 ELSE Sum[n - 1] + InFrame(stack[n])
    IN  Sum[Len(stack)]

Top == callStack[Len(callStack)]
Below == SubSeq(callStack, 1, Len(callStack) - 1)

\* The host calls a synchronous bridged function; with calls already in
\* progress this is a reentrant call.
HandleEnterCall ==
    /\ Len(callStack) < MaxDepth
    /\ callStack' = Append(callStack, <<>>)
    /\ UNCHANGED <<cellFlag, lastBorrow>>
    /\ UNCHANGED otherThanHandle

\* The innermost call borrows its next argument with `borrow`.  A throw or
\* a panic ends the call: its frame unwinds and drops the storages it holds.
HandleBorrow(kind, w) ==
    /\ callStack # <<>>
    /\ Len(Top) < MaxHandleArgs
    /\ LET r == IF kind = "shared" THEN Handle_borrow_shared(w, cellFlag)
                                   ELSE Handle_borrow_mut(w, cellFlag)
           o == NativeHandleOf(w).obj
       IN  /\ lastBorrow' = [kind |-> kind, wrapper |-> w, outcome |-> r.outcome, obj |-> o,
                             sharedBefore |-> Outstanding(callStack, o, "Ref"),
                             exclusiveBefore |-> Outstanding(callStack, o, "RefMut"),
                             depth |-> Len(callStack)]
           /\ IF r.outcome = "ok"
              THEN /\ callStack' = Append(Below, Top \o r.storage)
                   /\ cellFlag' = [cellFlag EXCEPT ![r.obj] = r.flag]
              ELSE /\ callStack' = Below
                   /\ cellFlag' = ReleaseFrame(cellFlag, Top)
    /\ UNCHANGED otherThanHandle

\* The innermost call returns: its storages go out of scope.
HandleReturn ==
    /\ callStack # <<>>
    /\ callStack' = Below
    /\ cellFlag' = ReleaseFrame(cellFlag, Top)
    /\ UNCHANGED lastBorrow
    /\ UNCHANGED otherThanHandle

InitHandle ==
    /\ ScalarIdle
    /\ OptIdle
    /\ MoveIdle
    /\ BufIdle
    /\ HandleIdle
    /\ ErrIdle
    /\ AsyncIdle

NextHandle ==
    \/ HandleEnterCall
    \/ \E kind \in {"shared", "exclusive"}, w \in Wrappers : HandleBorrow(kind, w)
    \/ HandleReturn

SpecHandle == InitHandle /\ [][NextHandle]_vars

\* C7: an exclusive borrow attempted while another borrow of the same
\* native object, shared or exclusive, is outstanding fails; no object ever
\* has an exclusive storage next to another storage.
C7_ExclusiveBorrowFailsWhileBorrowed ==
    /\ (/\ lastBorrow.kind = "exclusive"
        /\ lastBorrow.obj # ""
        /\ lastBorrow.sharedBefore + lastBorrow.exclusiveBefore > 0)
          => lastBorrow.outcome = "panic"
    /\ \A o \in NativeObjects :
          Outstanding(callStack, o, "RefMut") > 0 =>
              Outstanding(callStack, o, "RefMut") + Outstanding(callStack, o, "Ref") = 1

\* A reentrant call asked for the object its caller still holds shared.
C7_Witness ==
    /\ lastBorrow.kind = "exclusive"
    /\ lastBorrow.wrapper = "w1alias"
    /\ lastBorrow.sharedBefore = 1
    /\ lastBorrow.outcome = "panic"
    /\ Len(callStack) = 1
    /\ Outstanding(callStack, "o1", "Ref") = 1

(***************************************************************************)
(* error.rs: Error-to-Exception Mapping                                    *)
(***************************************************************************)
\* The names the mapping looks up in the registry.
ErrorClassNames == {"UntrustedIdentityError", "SealedSenderSelfSend"}

\* What a registry holds under a name: nothing, a value that is not a
\* function, a constructor, or a constructor that throws.
ClassEntries == {"absent", "notFunction", "ctor", "ctorThrows"}

Registries == [ErrorClassNames -> ClassEntries]

\* Native errors.  An UntrustedIdentity carries a ProtocolAddress.
NativeError(family, variant, name, device) ==
    [family |-> family, variant |-> variant, name |-> name, device |-> device]

NativeErrors ==
    {NativeError("SignalProtocolError", "UntrustedIdentity", n, d) :
            n \in {"alice", "bob"}, d \in {"1"}}
        \cup {NativeError("SignalProtocolError", v, "", "") :
                  v \in {"SealedSenderSelfSend", "InvalidState", "DuplicatedMessage"}}
        \cup {NativeError("device_transfer::Error", "KeyDecodingFailed", "", ""),
              NativeError("signal_crypto::Error", "InvalidTag", "", "")}

\* self.to_string(): the Display of the error, which spells out the variant
\* and, for an address, both its name and its device id.
to_string(e) ==
    IF e.variant = "UntrustedIdentity"
    THEN <<e.family, e.variant, e.name, ".", e.device>>
    ELSE <<e.family, e.variant>>

\* cx.string(addr.name()): a host string, as a sequence of tokens.
addr_name(e) == <<e.name>>

\* A host exception: its class and the arguments it was constructed with.
Exception(class, args) == [class |-> class, args |-> args]

\* const ERRORS_PROPERTY_NAME: &str = "Errors";
ERRORS_PROPERTY_NAME == "Errors"

\* The outcome of new_js_error: Some(instance) or None, what it logged, and
\* the properties it read on the way.
Constructed(instance, log, lookups) == [instance |-> instance, log |-> log, lookups |-> lookups]

\* A new_js_error without try_catch: the failure of the lookup or of the
\* constructor becomes the exception that is thrown.
new_js_error_uncaught(errors, name, args) ==
    CASE errors.kind # "object" ->
            Constructed(Some(Exception("TypeError", <<<<"failed to downcast">>>>)), <<>>,
                        <<ERRORS_PROPERTY_NAME>>)
      [] errors.kind = "object" /\ errors.classes[name] \in {"absent", "notFunction"} ->
            Constructed(Some(Exception("TypeError", <<<<"failed to downcast">>>>)), <<>>,
                        <<ERRORS_PROPERTY_NAME, name>>)
      [] errors.kind = "object" /\ errors.classes[name] = "ctorThrows" ->
            Constructed(Some(Exception("ThrownByConstructor", <<>>)), <<>>,
                        <<ERRORS_PROPERTY_NAME, name>>)
      [] OTHER -> Constructed(Some(Exception(name, args)), <<>>, <<ERRORS_PROPERTY_NAME, name>>)

\* fn new_js_error
new_js_error(errors, name, args) ==
    CASE errors.kind # "object" ->
            Constructed(None, <<<<"could not construct ", name, "TypeError">>>>,
                        <<ERRORS_PROPERTY_NAME>>)
      [] errors.kind = "object" /\ errors.classes[name] \in {"absent", "notFunction"} ->
            Constructed(None, <<<<"could not construct ", name, "TypeError">>>>,
                        <<ERRORS_PROPERTY_NAME, name>>)
      [] errors.kind = "object" /\ errors.classes[name] = "ctorThrows" ->
            Constructed(None, <<<<"could not construct ", name, "thrown by constructor">>>>,
                        <<ERRORS_PROPERTY_NAME, name>>)
      [] OTHER -> Constructed(Some(Exception(name, args)), <<>>, <<ERRORS_PROPERTY_NAME, name>>)

\* cx.throw_error(self.to_string())
throw_error(e) == Exception("Error", <<to_string(e)>>)

Mapped(thrown, log, lookups) == [thrown |-> thrown, log |-> log, lookups |-> lookups]

\* A mapping that hands every specific class the error's string form.
SignalProtocolError_throw_string_args(e, errors) ==
    IF e.variant \in {"UntrustedIdentity", "SealedSenderSelfSend"}
    THEN LET c == new_js_error(errors, IF e.variant = "UntrustedIdentity"
                                       THEN "UntrustedIdentityError" ELSE "SealedSenderSelfSend",
                               <<to_string(e)>>)
         IN  IF c.instance # None THEN Mapped(c.instance[1], c.log, c.lookups)
                                  ELSE Mapped(throw_error(e), c.log, c.lookups)
    ELSE Mapped(throw_error(e), <<>>, <<>>)

\* impl SignalNodeError for SignalProtocolError -- throw
SignalProtocolError_throw(e, errors) ==
    CASE e.variant = "UntrustedIdentity" ->
            LET c == new_js_error(errors, "UntrustedIdentityError", <<addr_name(e)>>)
            IN  IF c.instance # None THEN Mapped(c.instance[1], c.log, c.lookups)
                                     ELSE Mapped(throw_error(e), c.log, c.lookups)
      [] e.variant = "SealedSenderSelfSend" ->
            LET c == new_js_error(errors, "SealedSenderSelfSend", <<to_string(e)>>)
            IN  IF c.instance # None THEN Mapped(c.instance[1], c.log, c.lookups)
                                     ELSE Mapped(throw_error(e), c.log, c.lookups)
      [] OTHER -> Mapped(throw_error(e), <<>>, <<>>)

\* A mapping of the other error types that tries a registered class first.
OtherError_throw_via_registry(e, errors) ==
    LET c == new_js_error(errors, "SealedSenderSelfSend", <<to_string(e)>>)
    IN  IF c.instance # None THEN Mapped(c.instance[1], c.log, c.lookups)
                             ELSE Mapped(throw_error(e), c.log, c.lookups)

\* impl SignalNodeError for device_transfer::Error / signal_crypto::Error -- throw
OtherError_throw(e, errors) == Mapped(throw_error(e), <<>>, <<>>)

\* SignalNodeError::throw, by the type of the error.
SignalNodeError_throw(e, errors) ==
    IF e.family = "SignalProtocolError" THEN SignalProtocolError_throw(e, errors)
                                        ELSE OtherError_throw(e, errors)

\* fn node_registerErrorClasses: the argument must be an object.
RegisterErrorClasses(arg) ==
    /\ moduleErrors' = IF arg.kind = "object" THEN arg ELSE moduleErrors
    /\ UNCHANGED <<lastThrow, warnLog, errLookups>>
    /\ UNCHANGED otherThanErr

\* Host code assigns something that is not an object to the property.
HostAssignsErrors ==
    /\ moduleErrors' = ErrorsNotAnObject
    /\ UNCHANGED <<lastThrow, warnLog, errLookups>>
    /\ UNCHANGED otherThanErr

\* A bridged function fails with the native error e, which is thrown to the host.
ThrowNativeError(e) ==
    LET m == SignalNodeError_throw(e, moduleErrors)
    IN  /\ lastThrow' = [error |-> e, errors |-> moduleErrors, thrown |-> m.thrown]
        /\ warnLog' = m.log
        /\ errLookups' = m.lookups
        /\ UNCHANGED moduleErrors
        /\ UNCHANGED otherThanErr

InitError ==
    /\ ScalarIdle
    /\ OptIdle
    /\ MoveIdle
    /\ BufIdle
    /\ HandleIdle
    /\ ErrIdle
    /\ AsyncIdle

NextError ==
    \/ \E arg \in {ErrorsObject(r) : r \in Registries} \cup {ErrorsNotAnObject} :
            RegisterErrorClasses(arg)
    \/ HostAssignsErrors
    \/ \E e \in NativeErrors : ThrowNativeError(e)

SpecError == InitError /\ [][NextError]_vars

\* The registry had a working constructor under `name` when the error was mapped.
RegisteredAtThrow(name) ==
    /\ lastThrow.errors.kind = "object"
    /\ lastThrow.errors.classes[name] = "ctor"

\* C10: with a registry whose constructor for the category is registered
\* and constructs, an UntrustedIdentity error throws the instance built by
\* UntrustedIdentityError from the address's name alone, a
\* SealedSenderSelfSend error the instance built by SealedSenderSelfSend
\* from the error's string form; nothing generic is thrown, no warning logged.
C10_SpecificExceptionWhenRegistered ==
    /\ (lastThrow.error.variant = "UntrustedIdentity" /\ RegisteredAtThrow("UntrustedIdentityError"))
          => /\ lastThrow.thrown = Exception("UntrustedIdentityError", <<<<lastThrow.error.name>>>>)
             /\ warnLog = <<>>
    /\ (lastThrow.error.variant = "SealedSenderSelfSend" /\ RegisteredAtThrow("SealedSenderSelfSend"))
          => /\ lastThrow.thrown = Exception("SealedSenderSelfSend",
                                             <<<<"SignalProtocolError", "SealedSenderSelfSend">>>>)
             /\ warnLog = <<>>

C10_Witness ==
    /\ lastThrow.error.variant = "UntrustedIdentity"
    /\ lastThrow.error.name = "bob"
    /\ RegisteredAtThrow("UntrustedIdentityError")
    /\ lastThrow.errors.classes["SealedSenderSelfSend"] = "ctorThrows"
    /\ lastThrow.thrown.class = "UntrustedIdentityError"

(***************************************************************************)
(* convert.rs: persistent storage and its finalization                     *)
(***************************************************************************)
\* A persisted storage: its type, the root it owns (if any), what it points
\* at, and for the buffer the length and checksum taken when it was made.
Storage(type, owner, ptr, len, hash, present) ==
    [type |-> type, owner |-> owner, ptr |-> ptr, len |-> len, hash |-> hash, present |-> present]

\* PersistentAssumedImmutableBuffer::new: root first, then pointer, length, checksum.
PersistentAssumedImmutableBuffer_new(heap, debug, root) ==
    Storage("PersistentAssumedImmutableBuffer", Some(root),
            IF Len(heap) = 0 THEN "null" ELSE "jsBuf", Len(heap),
            calculate_checksum_for_immutable_buffer(heap, debug), TRUE)

\* impl Deref for PersistentAssumedImmutableBuffer
PersistentAssumedImmutableBuffer_deref(self, heap) ==
    IF self.ptr = "null" THEN <<>> ELSE SubSeq(heap, 1, self.len)

\* PersistentBoxedValue::new: the failable lookup and downcast come first,
\* the root is made last.
PersistentBoxedValue_new(w, root) ==
    LET h == NativeHandleOf(w)
    IN  CASE h.kind = "throws" -> Throw("Error", <<"getter threw">>)
          [] h.kind # "box" /\ h.kind # "throws" -> DowncastError([tag |-> h.kind], "JsBox")
          [] OTHER -> Ok(Storage("PersistentBoxedValue", Some(root), h.obj, 0, 0, TRUE))

\* A persist that makes the root before it looks for the box.
PersistentBoxedValue_new_roots_first(w, root, roots) == roots \cup {root}

\* PersistentBoxedValue::new: the roots alive once it has returned.  "We
\* must create the root after all failable operations."
PersistentBoxedValue_new_roots(w, root, roots) ==
    IF PersistentBoxedValue_new(w, root).ok THEN roots \cup {root} ELSE roots

\* What a finalization does: the roots left alive, the roots given back,
\* and the lines logged.
Finalized(roots, released, log) == [roots |-> roots, released |-> released, log |-> log]

\* A finalize that keeps the root.
PersistentBoxedValue_finalize_keeps_root(self, roots) == Finalized(roots, <<>>, <<>>)

\* impl Finalize for PersistentBoxedValue
PersistentBoxedValue_finalize(self, roots) ==
    Finalized(roots \ {self.owner[1]}, self.owner, <<>>)

\* A finalize that gives up as soon as it has logged the mismatch.
PersistentAssumedImmutableBuffer_finalize_stops_on_mismatch(self, roots, heap, debug) ==
    IF self.hash # calculate_checksum_for_immutable_buffer(
                        PersistentAssumedImmutableBuffer_deref(self, heap), debug)
    THEN Finalized(roots, <<>>, <<"buffer modified while in use">>)
    ELSE Finalized(roots \ {self.owner[1]}, self.owner, <<>>)

\* impl Finalize for PersistentAssumedImmutableBuffer
PersistentAssumedImmutableBuffer_finalize(self, roots, heap, debug) ==
    Finalized(roots \ {self.owner[1]}, self.owner,
              IF self.hash # calculate_checksum_for_immutable_buffer(
                                  PersistentAssumedImmutableBuffer_deref(self, heap), debug)
              THEN <<"buffer modified while in use">>
              ELSE <<>>)

\* A finalize that drops the option without finalizing what it wraps.
FinalizableOption_finalize_drops_value(self, roots) == Finalized(roots, <<>>, <<>>)

\* impl Finalize for FinalizableOption: if let Some(value) = self.0 { value.finalize(cx) }
FinalizableOption_finalize(self, roots) ==
    IF self.present THEN PersistentBoxedValue_finalize(self, roots)
                    ELSE Finalized(roots, <<>>, <<>>)

\* Finalize for the storage of an argument, by its type.  DefaultFinalize
\* holds no root; FinalizableOption finalizes what it wraps, if anything.
Storage_finalize(self, roots, heap, debug) ==
    CASE self.type = "PersistentAssumedImmutableBuffer" ->
            PersistentAssumedImmutableBuffer_finalize(self, roots, heap, debug)
      [] self.type = "PersistentBoxedValue" -> PersistentBoxedValue_finalize(self, roots)
      [] self.type = "FinalizableOption" -> FinalizableOption_finalize(self, roots)
      [] OTHER -> Finalized(roots, <<>>, <<>>)

(***************************************************************************)
(* The Asynchronous Conversion Protocol                                    *)
(***************************************************************************)
\* Persisted arguments of one asynchronous call.
MaxAsyncArgs == 2

\* What the host passes: a buffer, a wrapper of a native object, a number,
\* null for an optional handle, a wrapper for an optional handle.
AsyncArgKinds == {"buffer", "handle", "simple", "optionNull", "optionHandle"}

\* save_async_arg for the i-th argument, which owns root i if it owns one.
save_async_arg(kind, i, heap, debug) ==
    CASE kind = "buffer" -> PersistentAssumedImmutableBuffer_new(heap, debug, i)
      [] kind = "handle" -> Val(PersistentBoxedValue_new("w1", i))
      [] kind = "simple" -> Storage("DefaultFinalize", None, "", 0, 0, TRUE)
      [] kind = "optionNull" -> Storage("FinalizableOption", None, "", 0, 0, FALSE)
      [] kind = "optionHandle" ->
            [Val(PersistentBoxedValue_new("w2", i)) EXCEPT !.type = "FinalizableOption"]

RootsOf(store) == {i \in 1..Len(store) : store[i].owner # None}

\* The host calls an asynchronous bridged function: every argument is
\* persisted on the host context and a pending promise is returned.
AsyncCall(kinds) ==
    /\ asyncPhase = "idle"
    /\ LET store == [i \in 1..Len(kinds) |-> save_async_arg(kinds[i], i, jsBuf, debugLog)]
       IN  /\ asyncStore' = store
           /\ asyncRoots' = RootsOf(store)
           /\ asyncFinal' = [i \in 1..Len(kinds) |-> <<>>]
           /\ asyncReleases' = [i \in 1..Len(kinds) |-> 0]
    /\ asyncPhase' = "persisted"
    /\ asyncPromise' = [state |-> "pending", error |-> 0]
    /\ errorLog' = <<>>
    /\ UNCHANGED <<asyncThread, asyncWork>>
    /\ UNCHANGED <<debugLog, jsBuf, guard, bufAtBorrow, bufSeen, bufPhase>>
    /\ UNCHANGED lastPersist
    /\ UNCHANGED otherThanAsync

\* The storage moves to a worker and the native work starts.
AsyncStartWork ==
    /\ asyncPhase = "persisted"
    /\ asyncPhase' = "working"
    /\ asyncThread' = "worker"
    /\ asyncWork' = [state |-> "running", failed |-> 0]
    /\ UNCHANGED <<asyncStore, asyncRoots, asyncFinal, asyncReleases, asyncPromise>>
    /\ UNCHANGED bufVars
    /\ UNCHANGED lastPersist
    /\ UNCHANGED otherThanAsync

\* While the work runs, the host writes to the buffer it passed.
AsyncHostWrite(pos, byte) ==
    /\ asyncPhase = "working"
    /\ pos <= Len(jsBuf)
    /\ jsBuf' = [jsBuf EXCEPT ![pos] = byte]
    /\ UNCHANGED <<debugLog, guard, bufAtBorrow, bufSeen, bufPhase, errorLog>>
    /\ UNCHANGED asyncVars
    /\ UNCHANGED otherThanAsync

\* The native work completes with a result.
AsyncWorkSucceeds ==
    /\ asyncPhase = "working"
    /\ asyncPhase' = "completed"
    /\ asyncWork' = [state |-> "ok", failed |-> 0]
    /\ UNCHANGED <<asyncThread, asyncStore, asyncRoots, asyncFinal, asyncReleases, asyncPromise>>
    /\ UNCHANGED bufVars
    /\ UNCHANGED lastPersist
    /\ UNCHANGED otherThanAsync

\* The native work fails while using argument k.
AsyncWorkFails(k) ==
    /\ asyncPhase = "working"
    /\ k \in 1..Len(asyncStore)
    /\ asyncPhase' = "completed"
    /\ asyncWork' = [state |-> "failed", failed |-> k]
    /\ UNCHANGED <<asyncThread, asyncStore, asyncRoots, asyncFinal, asyncReleases, asyncPromise>>
    /\ UNCHANGED bufVars
    /\ UNCHANGED lastPersist
    /\ UNCHANGED otherThanAsync

\* The outcome is handed back to the host context.
AsyncResumeOnHost ==
    /\ asyncPhase = "completed"
    /\ asyncPhase' = "finalizing"
    /\ asyncThread' = "host"
    /\ UNCHANGED <<asyncStore, asyncRoots, asyncFinal, asyncReleases, asyncWork, asyncPromise>>
    /\ UNCHANGED bufVars
    /\ UNCHANGED lastPersist
    /\ UNCHANGED otherThanAsync

\* The next storage not yet finalized.
NextToFinalize ==
    IF \E i \in 1..Len(asyncFinal) : asyncFinal[i] = <<>>
    THEN CHOOSE i \in 1..Len(asyncFinal) :
            asyncFinal[i] = <<>> /\ \A j \in 1..(i - 1) : asyncFinal[j] # <<>>
    ELSE 0

\* The host context finalizes the next persisted storage, on the success
\* path and on the error path alike.
AsyncFinalizeNext ==
    /\ asyncPhase = "finalizing"
    /\ NextToFinalize # 0
    /\ LET i == NextToFinalize
           f == Storage_finalize(asyncStore[i], asyncRoots, jsBuf, debugLog)
       IN  /\ asyncRoots' = f.roots
           /\ asyncReleases' = [asyncReleases EXCEPT ![i] = @ + Len(f.released)]
           /\ asyncFinal' = [asyncFinal EXCEPT ![i] =
                                Append(@, [thread |-> asyncThread, work |-> asyncWork.state,
                                           promise |-> asyncPromise.state])]
           /\ errorLog' = errorLog \o f.log
    /\ UNCHANGED <<asyncPhase, asyncThread, asyncStore, asyncWork, asyncPromise>>
    /\ UNCHANGED <<debugLog, jsBuf, guard, bufAtBorrow, bufSeen, bufPhase>>
    /\ UNCHANGED lastPersist
    /\ UNCHANGED otherThanAsync

\* With every storage finalized, the promise is settled: fulfilled, or
\* rejected with the error of the work.
AsyncSettle ==
    /\ asyncPhase = "finalizing"
    /\ NextToFinalize = 0
    /\ asyncPhase' = "settled"
    /\ asyncPromise' = IF asyncWork.state = "ok"
                       THEN [state |-> "fulfilled", error |-> 0]
                       ELSE [state |-> "rejected", error |-> asyncWork.failed]
    /\ UNCHANGED <<asyncThread, asyncStore, asyncRoots, asyncFinal, asyncReleases, asyncWork>>
    /\ UNCHANGED bufVars
    /\ UNCHANGED lastPersist
    /\ UNCHANGED otherThanAsync

\* While no call is running on the host context, the host calls an
\* asynchronous bridged function with a wrapper that cannot be persisted:
\* the call throws, and no storage is made.
AsyncCallRefused(w) ==
    /\ asyncPhase \in {"idle", "working", "completed", "settled"}
    /\ ~PersistentBoxedValue_new(w, MaxAsyncArgs + 1).ok
    /\ asyncRoots' = PersistentBoxedValue_new_roots(w, MaxAsyncArgs + 1, asyncRoots)
    /\ lastPersist' = [wrapper |-> w, res |-> PersistentBoxedValue_new(w, MaxAsyncArgs + 1),
                       before |-> asyncRoots,
                       after |-> PersistentBoxedValue_new_roots(w, MaxAsyncArgs + 1, asyncRoots)]
    /\ UNCHANGED <<asyncPhase, asyncThread, asyncStore, asyncFinal, asyncReleases, asyncWork,
                   asyncPromise>>
    /\ UNCHANGED bufVars
    /\ UNCHANGED otherThanAsync

\* Sequences of argument kinds of length 1..n.
KindLists(n) == UNION {[1..m -> AsyncArgKinds] : m \in 1..n}

InitAsync ==
    /\ ScalarIdle
    /\ OptIdle
    /\ MoveIdle
    /\ HandleIdle
    /\ ErrIdle
    /\ AsyncIdle
    /\ debugLog \in BOOLEAN
    /\ jsBuf = InitialBytes(2)
    /\ guard = None
    /\ bufAtBorrow = <<>>
    /\ bufSeen = None
    /\ bufPhase = "idle"
    /\ errorLog = <<>>

NextAsync ==
    \/ \E kinds \in KindLists(MaxAsyncArgs) : AsyncCall(kinds)
    \/ AsyncStartWork
    \/ \E byte \in WriteValues : AsyncHostWrite(1, byte)
    \/ AsyncWorkSucceeds
    \/ \E k \in 1..MaxAsyncArgs : AsyncWorkFails(k)
    \/ AsyncResumeOnHost
    \/ AsyncFinalizeNext
    \/ AsyncSettle
    \/ \E w \in Wrappers : AsyncCallRefused(w)

SpecAsync == InitAsync /\ [][NextAsync]_vars

\* C8: whichever argument's use fails, and on success too, each of the N
\* persisted storages has been finalized exactly once when the promise is
\* settled (never more than once before), every root has been given back
\* exactly once, and a failure of argument k rejects the promise with k's error.
C8_AllStoragesFinalizedOnce ==
    /\ \A i \in 1..Len(asyncStore) :
          /\ Len(asyncFinal[i]) <= 1
          /\ asyncReleases[i] <= 1
    /\ asyncPhase = "settled" =>
          /\ \A i \in 1..Len(asyncStore) :
                /\ Len(asyncFinal[i]) = 1
                /\ asyncReleases[i] = IF asyncStore[i].owner # None THEN 1 ELSE 0
          /\ asyncRoots = {}
          /\ asyncWork.state = "failed" =>
                asyncPromise = [state |-> "rejected", error |-> asyncWork.failed]
          /\ asyncWork.state = "ok" => asyncPromise.state = "fulfilled"

\* Two arguments, the second at fault: both finalized, rejected with its error.
C8_Witness ==
    /\ asyncPhase = "settled"
    /\ Len(asyncStore) = 2
    /\ asyncStore[1].type = "PersistentBoxedValue"
    /\ asyncStore[2].type = "PersistentAssumedImmutableBuffer"
    /\ asyncWork = [state |-> "failed", failed |-> 2]
    /\ asyncPromise = [state |-> "rejected", error |-> 2]
    /\ asyncReleases = <<1, 1>>

\* C9: every finalization of a persisted storage happens on the host
\* context, after the native work has completed (with success or error) and
\* while the promise is still pending; until the work has completed every
\* root is still held, and once the promise is settled none is.
C9_FinalizeAfterWorkBeforeSettle ==
    /\ \A i \in 1..Len(asyncStore) : \A n \in 1..Len(asyncFinal[i]) :
          /\ asyncFinal[i][n].thread = "host"
          /\ asyncFinal[i][n].work \in {"ok", "failed"}
          /\ asyncFinal[i][n].promise = "pending"
    /\ asyncWork.state \in {"none", "running"} => asyncRoots = RootsOf(asyncStore)
    /\ asyncPromise.state \in {"fulfilled", "rejected"} =>
          /\ asyncRoots = {}
          /\ \A i \in 1..Len(asyncStore) : asyncFinal[i] # <<>>

\* A buffer the host wrote to during the work: finalized on the host after
\* the failure, and the promise then rejected.
C9_Witness ==
    /\ asyncPromise.state = "rejected"
    /\ Len(asyncStore) = 2
    /\ asyncStore[1].type = "PersistentAssumedImmutableBuffer"
    /\ asyncFinal[1] = <<[thread |-> "host", work |-> "failed", promise |-> "pending"]>>
    /\ errorLog = <<"buffer modified while in use">>

\* The error belongs to one of the categories that have a class of their own.
WellKnown(e) ==
    e.family = "SignalProtocolError" /\ e.variant \in {"UntrustedIdentity", "SealedSenderSelfSend"}

ClassNameFor(e) ==
    IF e.variant = "UntrustedIdentity" THEN "UntrustedIdentityError" ELSE "SealedSenderSelfSend"

\* C11: when the specific exception of a well-known category cannot be
\* produced (no registry, registry not an object, constructor missing, not a
\* function, or throwing), exactly one warning is logged and the exception
\* thrown is the generic one carrying the error's string form; the secondary
\* failure is never what is thrown.
C11_SecondaryFailureFallsBack ==
    (WellKnown(lastThrow.error) /\ ~RegisteredAtThrow(ClassNameFor(lastThrow.error))) =>
        /\ Len(warnLog) = 1
        /\ lastThrow.thrown = Exception("Error", <<to_string(lastThrow.error)>>)

\* The constructor threw; the host sees the generic exception and one warning.
C11_Witness ==
    /\ lastThrow.error.variant = "SealedSenderSelfSend"
    /\ lastThrow.errors.kind = "object"
    /\ lastThrow.errors.classes["SealedSenderSelfSend"] = "ctorThrows"
    /\ lastThrow.thrown = Exception("Error", <<<<"SignalProtocolError", "SealedSenderSelfSend">>>>)
    /\ warnLog = <<<<"could not construct ", "SealedSenderSelfSend", "thrown by constructor">>>>

\* C12: an error outside the well-known categories reads nothing from the
\* registry, logs no warning and throws the generic exception carrying its
\* string form, whatever the registry holds.
C12_OtherErrorsAreGeneric ==
    (lastThrow.error.family # "none" /\ ~WellKnown(lastThrow.error)) =>
        /\ errLookups = <<>>
        /\ warnLog = <<>>
        /\ lastThrow.thrown = Exception("Error", <<<<lastThrow.error.family, lastThrow.error.variant>>>>)

\* Both classes are registered and construct, and the error still came out generic.
C12_Witness ==
    /\ lastThrow.error = NativeError("SignalProtocolError", "InvalidState", "", "")
    /\ lastThrow.errors = ErrorsObject([n \in ErrorClassNames |-> "ctor"])
    /\ lastThrow.thrown.class = "Error"
    /\ errLookups = <<>>

\* The persisted storages of the given type.
StoragesOf(type) == {i \in 1..Len(asyncStore) : asyncStore[i].type = type}

\* C13: the storage of an optional argument, once finalized, has finalized
\* what it wraps exactly once when the value is present (its root given back
\* once and no longer live); when the value is absent nothing is finalized
\* and no root is given back.
C13_OptionFinalizesWrappedOnce ==
    \A i \in StoragesOf("FinalizableOption") :
        /\ ~asyncStore[i].present => (asyncReleases[i] = 0 /\ asyncStore[i].owner = None)
        /\ (asyncStore[i].present /\ asyncFinal[i] = <<>>) =>
                (asyncReleases[i] = 0 /\ i \in asyncRoots)
        /\ (asyncStore[i].present /\ asyncFinal[i] # <<>>) =>
                (asyncReleases[i] = 1 /\ i \notin asyncRoots)

\* A present and an absent optional handle, both finalized.
C13_Witness ==
    /\ asyncPhase = "settled"
    /\ Len(asyncStore) = 2
    /\ asyncStore[1].type = "FinalizableOption" /\ asyncStore[1].present
    /\ asyncStore[2].type = "FinalizableOption" /\ ~asyncStore[2].present
    /\ asyncFinal[1] # <<>> /\ asyncFinal[2] # <<>>
    /\ asyncReleases = <<1, 0>>

\* The buffer differs now from what it was when the storage was made.
Mismatch(i) ==
    asyncStore[i].hash # calculate_checksum_for_immutable_buffer(
                            PersistentAssumedImmutableBuffer_deref(asyncStore[i], jsBuf), debugLog)

\* C14: a finalized persistent buffer has given its root back exactly once,
\* with a matching checksum or not; each mismatch adds one line to the error
\* log and nothing else.
C14_BufferFinalizeAlwaysReleases ==
    /\ \A i \in StoragesOf("PersistentAssumedImmutableBuffer") :
          asyncFinal[i] # <<>> => (asyncReleases[i] = 1 /\ i \notin asyncRoots)
    /\ asyncPhase \in {"finalizing", "settled"} =>
          Len(errorLog) = Cardinality({i \in StoragesOf("PersistentAssumedImmutableBuffer") :
                                          asyncFinal[i] # <<>> /\ Mismatch(i)})

\* The host wrote to the buffer during the work: one line logged, root released.
C14_Witness ==
    /\ asyncPhase = "settled"
    /\ Len(asyncStore) = 1
    /\ asyncStore[1].type = "PersistentAssumedImmutableBuffer"
    /\ Mismatch(1)
    /\ errorLog = <<"buffer modified while in use">>
    /\ asyncReleases = <<1>>
    /\ asyncRoots = {}

\* C16: when persisting an opaque handle fails (no _nativeHandle property,
\* reading it throws, or it is not a box of the expected type), the live
\* roots after the failed PersistentBoxedValue::new are those before it.
C16_FailedPersistMakesNoRoot ==
    /\ lastPersist # NoPersist =>
          /\ ~lastPersist.res.ok
          /\ lastPersist.after = lastPersist.before
    /\ asyncRoots \subseteq RootsOf(asyncStore)

\* A box of another type is refused while two roots of a call in flight are live.
C16_Witness ==
    /\ lastPersist.wrapper = "wOtherType"
    /\ lastPersist.res.err = "TypeError"
    /\ lastPersist.before = {1, 2}
    /\ lastPersist.after = {1, 2}
    /\ asyncPhase = "working"

\* The first n bytes of a buffer, or all of it when it is shorter.
Prefix(bytes, n) == IF Len(bytes) < n THEN bytes ELSE SubSeq(bytes, 1, n)

\* The checksum the code takes of the host buffer as it is now.
ChecksumNow ==
    calculate_checksum_for_immutable_buffer(SliceBytes(SliceOf(Len(jsBuf)), jsBuf), debugLog)

\* C17: with debug logging off the checksum is that of the first 1024 bytes
\* (of the whole buffer when it is shorter), so the buffer as borrowed and
\* the buffer as the host has rewritten it have the same checksum whenever
\* they agree on their first 1024 bytes; with debug logging on the checksum
\* is that of every byte.
C17_ChecksumCoversFirstLimit ==
    bufPhase = "borrowed" =>
        /\ ~debugLog => guard[1].hash = HasherDigest(Prefix(bufAtBorrow, LIMIT))
        /\ (~debugLog /\ Prefix(jsBuf, LIMIT) = Prefix(bufAtBorrow, LIMIT)) =>
                ChecksumNow = guard[1].hash
        /\ debugLog => (guard[1].hash = HasherDigest(bufAtBorrow) /\ ChecksumNow = HasherDigest(jsBuf))

\* Debug off, a buffer longer than 1024 bytes rewritten past byte 1024 only:
\* the checksum is the one taken at the borrow.
C17_Witness ==
    /\ bufPhase = "borrowed"
    /\ ~debugLog
    /\ Len(jsBuf) = LIMIT + 2
    /\ jsBuf # bufAtBorrow
    /\ Prefix(jsBuf, LIMIT) = Prefix(bufAtBorrow, LIMIT)
    /\ ChecksumNow = guard[1].hash

\* C18 as stated: with no call in progress every object's borrow flag is
\* back at unused, and every borrow made while no other call is in progress
\* succeeds.
C18_EveryBorrowSucceedsWithoutOverlap ==
    /\ callStack = <<>> => \A o \in NativeObjects : cellFlag[o] = 0
    /\ (lastBorrow.obj # "" /\ lastBorrow.depth = 1) => lastBorrow.outcome = "ok"

\* C18 as amended: with no call in progress every object's borrow flag is
\* back at unused; a borrow made while no other call is in progress succeeds
\* when its own call holds no borrow of the object yet, and when it fails it
\* is a borrow its own call took earlier that is in the way.
C18_BorrowScopedToCall ==
    /\ callStack = <<>> => \A o \in NativeObjects : cellFlag[o] = 0
    /\ (/\ lastBorrow.obj # ""
        /\ lastBorrow.depth = 1
        /\ lastBorrow.sharedBefore + lastBorrow.exclusiveBefore = 0)
          => lastBorrow.outcome = "ok"
    /\ (lastBorrow.obj # "" /\ lastBorrow.depth = 1 /\ lastBorrow.outcome # "ok")
          => /\ lastBorrow.outcome = "panic"
             /\ lastBorrow.sharedBefore + lastBorrow.exclusiveBefore > 0

\* A call borrowed o1 exclusively and has returned: o1 is unused again.
C18_Witness ==
    /\ callStack = <<>>
    /\ lastBorrow.kind = "exclusive"
    /\ lastBorrow.obj = "o1"
    /\ lastBorrow.outcome = "ok"
    /\ lastBorrow.depth = 1
    /\ cellFlag["o1"] = 0

\* C19: in every state each native object has either no exclusive borrow
\* and any number of shared ones, or exactly one exclusive borrow and no
\* shared one, and its flag says so; a shared borrow succeeds when no
\* exclusive borrow of the object is outstanding, other shared borrows or
\* not, and fails when one is.
C19_SharedManyOrExclusiveOne ==
    /\ \A o \in NativeObjects :
          LET shared == Outstanding(callStack, o, "Ref")
              exclusive == Outstanding(callStack, o, "RefMut")
          IN  /\ exclusive = 0 \/ (exclusive = 1 /\ shared = 0)
              /\ cellFlag[o] = IF exclusive = 1 THEN -1 ELSE shared
    /\ (lastBorrow.kind = "shared" /\ lastBorrow.obj # "") =>
          /\ lastBorrow.exclusiveBefore = 0 => lastBorrow.outcome = "ok"
          /\ lastBorrow.exclusiveBefore > 0 => lastBorrow.outcome = "panic"

\* A second shared borrow of o1, through another wrapper, next to the first.
C19_Witness ==
    /\ lastBorrow.kind = "shared"
    /\ lastBorrow.wrapper = "w1alias"
    /\ lastBorrow.sharedBefore = 1
    /\ lastBorrow.outcome = "ok"
    /\ Outstanding(callStack, "o1", "Ref") = 2
    /\ cellFlag["o1"] = 2

====
